---- MODULE Spec2Model ----
(***************************************************************************)
(* ArtistGrid/stats: a single-endpoint caching proxy (src/main.rs).        *)
(* One shared slot, Arc<RwLock<Option<CacheEntry>>>, is read and replaced  *)
(* by concurrently running instances of `handler`.  Each instance is a     *)
(* process of this model; its program counter follows the statements of    *)
(* `handler` between which another instance (or the clock) can act.        *)
(***************************************************************************)
EXTENDS Integers, Sequences, FiniteSets, TLC

\* ------------------------------------------------------------------ bounds
NumReqs == 2        \* handler instances that can be running at the same time
MaxTime == 601      \* the clock stops advancing here (seconds)
MaxFetches == 2     \* upstream fetches started in one run of the model

\* ------------------------------------------------------- program constants
CACHE_DURATION == 600   \* const CACHE_DURATION: Duration::from_secs(600)

Reqs == 1 .. NumReqs
NoReq == 0

\* The clock (Instant::now()) is read in seconds.  It advances in steps
\* around CACHE_DURATION, so that entries of age 1 and 2, and of age exactly
\* CACHE_DURATION - 1, CACHE_DURATION and CACHE_DURATION + 1 occur.
Deltas == {CACHE_DURATION - 1, CACHE_DURATION, CACHE_DURATION + 1}

\* Option::None, for the slot and for locals not yet bound.
None == [none |-> TRUE]

\* Bytes of the configured BEARER_TOKEN values the model starts from:
\* "tok" and "t\n".
Tokens == { <<116, 111, 107>>, <<116, 10>> }

\* HTTP statuses the upstream may answer with.
UpstreamStatuses == {200, 503}

\* ------------------------------------------------------------ pure helpers

\* format!("Bearer {}", state.bearer_token)
FormatBearer(tok) == <<66, 101, 97, 114, 101, 114, 32>> \o tok

\* <HeaderValue as FromStr>::from_str, reached through .parse(): a byte is
\* accepted iff it is a tab or a visible/space byte other than DEL.
IsValidHeaderByte(b) == (b >= 32 /\ b # 127) \/ b = 9

ParseHeaderValueOk(bytes) ==
    \A i \in 1 .. Len(bytes) : IsValidHeaderByte(bytes[i])

\* Instant::elapsed() of a stored timestamp, read at clock value t.
Elapsed(ts, t) == IF t >= ts THEN t - ts ELSE 0

\* A variant of IsFresh with the threshold one second early.
IsFreshEarly(slot, t) ==
    slot # None /\ Elapsed(slot.timestamp, t) < CACHE_DURATION - 1

\* IsFresh with the boundary age counted as fresh.
IsFreshInclusive(slot, t) ==
    slot # None /\ Elapsed(slot.timestamp, t) <= CACHE_DURATION

\* The test of lines 71-72: Some(entry) with elapsed() < CACHE_DURATION.
IsFresh(slot, t) == slot # None /\ Elapsed(slot.timestamp, t) < CACHE_DURATION

\* CacheEntry { data, timestamp }
CacheEntry(d, ts) == [data |-> d, timestamp |-> ts]

\* Responses built by into_response(): a String gives 200, the tuple with
\* StatusCode::INTERNAL_SERVER_ERROR gives 500.
OkResponse(b) == [status |-> 200, body |-> b]

ErrFetching == [error |-> "Error fetching data"]

ErrReading == [error |-> "Error reading response"]

ErrResponse(msg) == [status |-> 500, body |-> msg]

\* What a cache check at clock value t finds in the slot.  This is the
\* classification the claims speak of, computed from the definition of age
\* and not from the handler's own test.
Observe(slot, t) ==
    IF slot = None THEN "empty"
    ELSE IF t - slot.timestamp < CACHE_DURATION THEN "fresh"
    ELSE "stale"

\* ------------------------------------------------------------------- state
VARIABLES
    bearer_token,   \* AppState.bearer_token
    cache,          \* AppState.cache: None or a CacheEntry
    readers,        \* requests holding a read guard of the RwLock
    writers,        \* requests holding the write guard of the RwLock
    now,            \* the monotonic clock
    fetches,        \* upstream fetches started so far
    pc,             \* per request: position in handler
    response,       \* per request: upstream response whose body is unread
    body,           \* per request: `body`
    entry,          \* per request: `entry`
    resp,           \* per request: the Response handler returned
    \* History of the running request, dropped when handler returns:
    arrived,        \* clock value when handler was entered
    seen,           \* slot content at the cache check
    fetchedAt,      \* clock value when the body had been read
    \* History of the request, kept until the next request reuses the index:
    found,          \* what the cache check found (Observe)
    nfetch,         \* upstream fetches this request started
    fetched,        \* its fetch: None, [text |-> ..] or [failed |-> ..]
    wrote,          \* the entry this request stored in the slot, or None
    \* History of the lock:
    lastWriter      \* the request that acquired the write guard last, or NoReq

vars == <<bearer_token, cache, readers, writers, now, fetches, pc, response,
          body, entry, resp, arrived, seen, fetchedAt, found, nfetch, fetched,
          wrote, lastWriter>>

locks == <<readers, writers>>
locals == <<response, body, entry, resp>>
running == <<arrived, seen, fetchedAt>>
history == <<found, nfetch, fetched, wrote>>

\* main(): the token comes from the environment, the slot starts as None
\* (lines 45-52).  No request is running.
Init ==
    /\ bearer_token \in Tokens
    /\ cache = None
    /\ readers = {}
    /\ writers = {}
    /\ now = 0
    /\ fetches = 0
    /\ pc = [r \in Reqs |-> "idle"]
    /\ response = [r \in Reqs |-> None]
    /\ body = [r \in Reqs |-> None]
    /\ entry = [r \in Reqs |-> None]
    /\ resp = [r \in Reqs |-> None]
    /\ arrived = [r \in Reqs |-> 0]
    /\ seen = [r \in Reqs |-> None]
    /\ fetchedAt = [r \in Reqs |-> 0]
    /\ found = [r \in Reqs |-> "unchecked"]
    /\ nfetch = [r \in Reqs |-> 0]
    /\ fetched = [r \in Reqs |-> None]
    /\ wrote = [r \in Reqs |-> None]
    /\ lastWriter = NoReq

\* ----------------------------------------------------------------- actions

\* The locals of the call of request r are dropped.
DropLocals(r) ==
    /\ response' = [response EXCEPT ![r] = None]
    /\ body' = [body EXCEPT ![r] = None]
    /\ entry' = [entry EXCEPT ![r] = None]
    /\ arrived' = [arrived EXCEPT ![r] = 0]
    /\ seen' = [seen EXCEPT ![r] = None]
    /\ fetchedAt' = [fetchedAt EXCEPT ![r] = 0]

\* handler returns `rsp`: the response goes to the client.
Return(r, rsp) ==
    /\ resp' = [resp EXCEPT ![r] = rsp]
    /\ pc' = [pc EXCEPT ![r] = "done"]
    /\ DropLocals(r)

\* The task of request r unwinds from a panic: no response is produced.
Panic(r) ==
    /\ pc' = [pc EXCEPT ![r] = "panicked"]
    /\ DropLocals(r)
    /\ UNCHANGED resp

\* Time passes.
Tick ==
    /\ \E d \in Deltas :
        /\ now + d <= MaxTime
        /\ now' = now + d
    /\ UNCHANGED <<bearer_token, lastWriter, cache, locks, fetches, pc,
                   locals, running, history>>

\* axum routes a GET / to a new call of handler (line 67).  An index whose
\* previous request is over is reused for the new request.
Start(r) ==
    /\ pc[r] \in {"idle", "done", "panicked"}
    /\ pc' = [pc EXCEPT ![r] = "rdlock"]
    /\ arrived' = [arrived EXCEPT ![r] = now]
    /\ resp' = [resp EXCEPT ![r] = None]
    /\ found' = [found EXCEPT ![r] = "unchecked"]
    /\ nfetch' = [nfetch EXCEPT ![r] = 0]
    /\ fetched' = [fetched EXCEPT ![r] = None]
    /\ wrote' = [wrote EXCEPT ![r] = None]
    /\ UNCHANGED <<bearer_token, lastWriter, cache, locks, now, fetches,
                   response, body, entry, seen, fetchedAt>>

\* A variant of AcquireRead that does not wait for the writer.
AcquireReadNoExclusion(r) ==
    /\ pc[r] = "rdlock"
    /\ readers' = readers \cup {r}
    /\ pc' = [pc EXCEPT ![r] = "check"]
    /\ UNCHANGED <<bearer_token, lastWriter, cache, writers, now, fetches,
                   locals, running, history>>

\* state.cache.read().await (line 70): granted while no writer holds the
\* lock.  The order in which tokio serves waiting tasks is left open.
AcquireRead(r) ==
    /\ pc[r] = "rdlock"
    /\ writers = {}
    /\ readers' = readers \cup {r}
    /\ pc' = [pc EXCEPT ![r] = "check"]
    /\ UNCHANGED <<bearer_token, lastWriter, cache, writers, now, fetches,
                   locals, running, history>>

\* A variant of CheckCache whose read guard lives on after a miss, as it
\* would without the block of lines 69-77.
CheckCacheKeepGuard(r) ==
    /\ pc[r] = "check"
    /\ found' = [found EXCEPT ![r] = Observe(cache, now)]
    /\ readers' = IF IsFresh(cache, now) THEN readers \ {r} ELSE readers
    /\ IF IsFresh(cache, now)
       THEN Return(r, OkResponse(cache.data))
       ELSE /\ seen' = [seen EXCEPT ![r] = cache]
            /\ pc' = [pc EXCEPT ![r] = "send"]
            /\ UNCHANGED <<locals, arrived, fetchedAt>>
    /\ UNCHANGED <<bearer_token, lastWriter, cache, writers, now, fetches,
                   nfetch, fetched, wrote>>

\* CheckCache that never serves from the slot: every request takes the miss
\* path.
CheckCacheNoHit(r) ==
    /\ pc[r] = "check"
    /\ found' = [found EXCEPT ![r] = Observe(cache, now)]
    /\ readers' = readers \ {r}
    /\ seen' = [seen EXCEPT ![r] = cache]
    /\ pc' = [pc EXCEPT ![r] = "send"]
    /\ UNCHANGED <<bearer_token, lastWriter, cache, writers, now, fetches>>
    /\ UNCHANGED <<locals, arrived, fetchedAt, nfetch, fetched, wrote>>

\* CheckCache with a sliding expiration: a hit restarts the entry's time to
\* live.
CheckCacheSliding(r) ==
    /\ pc[r] = "check"
    /\ found' = [found EXCEPT ![r] = Observe(cache, now)]
    /\ readers' = readers \ {r}
    /\ IF IsFresh(cache, now)
       THEN /\ Return(r, OkResponse(cache.data))
            /\ cache' = [cache EXCEPT !.timestamp = now]
       ELSE /\ seen' = [seen EXCEPT ![r] = cache]
            /\ pc' = [pc EXCEPT ![r] = "send"]
            /\ UNCHANGED <<locals, arrived, fetchedAt, cache>>
    /\ UNCHANGED <<bearer_token, lastWriter, writers, now, fetches,
                   nfetch, fetched, wrote>>

\* Lines 71-77, under the read guard.  A fresh entry: the response is built
\* from a clone of entry.data and returned (line 74), which drops the guard.
\* No entry, or a stale one: the guard is dropped at the end of the block
\* (line 77) and control reaches line 80.
CheckCache(r) ==
    /\ pc[r] = "check"
    /\ found' = [found EXCEPT ![r] = Observe(cache, now)]
    /\ readers' = readers \ {r}
    /\ IF IsFresh(cache, now)
       THEN Return(r, OkResponse(cache.data))
       ELSE /\ seen' = [seen EXCEPT ![r] = cache]
            /\ pc' = [pc EXCEPT ![r] = "send"]
            /\ UNCHANGED <<locals, arrived, fetchedAt>>
    /\ UNCHANGED <<bearer_token, lastWriter, cache, writers, now, fetches,
                   nfetch, fetched, wrote>>

\* Send with request coalescing: the fetch is started only while no other
\* request has a fetch in flight.
SendSingleFlight(r) ==
    /\ pc[r] = "send"
    /\ IF ParseHeaderValueOk(FormatBearer(bearer_token))
       THEN /\ \A q \in Reqs \ {r} : pc[q] \notin {"sending", "reading"}
            /\ fetches < MaxFetches
            /\ fetches' = fetches + 1
            /\ nfetch' = [nfetch EXCEPT ![r] = nfetch[r] + 1]
            /\ pc' = [pc EXCEPT ![r] = "sending"]
            /\ UNCHANGED <<locals, running>>
       ELSE /\ Panic(r)
            /\ UNCHANGED <<fetches, nfetch>>
    /\ UNCHANGED <<bearer_token, lastWriter, cache, locks, now, found,
                   fetched, wrote>>

\* Lines 82-90: the Authorization header is built and the request is sent.
\* .expect() panics when "Bearer <token>" does not parse as a header value.
\* Otherwise client.get(API_URL).headers(headers).send() is started.
Send(r) ==
    /\ pc[r] = "send"
    /\ IF ParseHeaderValueOk(FormatBearer(bearer_token))
       THEN /\ fetches < MaxFetches
            /\ fetches' = fetches + 1
            /\ nfetch' = [nfetch EXCEPT ![r] = nfetch[r] + 1]
            /\ pc' = [pc EXCEPT ![r] = "sending"]
            /\ UNCHANGED <<locals, running>>
       ELSE /\ Panic(r)
            /\ UNCHANGED <<fetches, nfetch>>
    /\ UNCHANGED <<bearer_token, lastWriter, cache, locks, now, found,
                   fetched, wrote>>

\* send().await gives Ok(response) (line 91).  The status is whatever the
\* upstream chose; the text is what the upstream sent to this request.
SendOk(r) ==
    /\ pc[r] = "sending"
    /\ \E s \in UpstreamStatuses :
        response' = [response EXCEPT ![r] =
                        [status |-> s, text |-> [to |-> r, upstream |-> s]]]
    /\ pc' = [pc EXCEPT ![r] = "reading"]
    /\ UNCHANGED <<bearer_token, lastWriter, cache, locks, now, fetches, body,
                   entry, resp, running, history>>

\* A variant of SendErr that empties the slot when the fetch fails.
SendErrClear(r) ==
    /\ pc[r] = "sending"
    /\ fetched' = [fetched EXCEPT ![r] = [failed |-> "send"]]
    /\ cache' = None
    /\ Return(r, ErrResponse(ErrFetching))
    /\ UNCHANGED <<bearer_token, lastWriter, locks, now, fetches, found,
                   nfetch, wrote>>

\* A variant of SendErr that falls back to the entry found stale.
SendErrServeStale(r) ==
    /\ pc[r] = "sending"
    /\ fetched' = [fetched EXCEPT ![r] = [failed |-> "send"]]
    /\ Return(r, IF seen[r] # None THEN OkResponse(seen[r].data)
                 ELSE ErrResponse(ErrFetching))
    /\ UNCHANGED <<bearer_token, lastWriter, cache, locks, now, fetches,
                   found, nfetch, wrote>>

\* send().await gives Err(e): a transport error, or the client's 30 s
\* timeout (lines 115-122).
SendErr(r) ==
    /\ pc[r] = "sending"
    /\ fetched' = [fetched EXCEPT ![r] = [failed |-> "send"]]
    /\ Return(r, ErrResponse(ErrFetching))
    /\ UNCHANGED <<bearer_token, lastWriter, cache, locks, now, fetches,
                   found, nfetch, wrote>>

\* A variant of ReadBodyOk that inspects the upstream status: a body read
\* from a response whose status is not 200 is answered with 500 and is not
\* stored.
ReadBodyOkCheckStatus(r) ==
    /\ pc[r] = "reading"
    /\ fetched' = [fetched EXCEPT ![r] = [text |-> response[r].text]]
    /\ IF response[r].status = 200
       THEN /\ body' = [body EXCEPT ![r] = response[r].text]
            /\ response' = [response EXCEPT ![r] = None]
            /\ fetchedAt' = [fetchedAt EXCEPT ![r] = now]
            /\ pc' = [pc EXCEPT ![r] = "mkentry"]
            /\ UNCHANGED <<entry, resp, arrived, seen>>
       ELSE Return(r, ErrResponse(ErrFetching))
    /\ UNCHANGED <<bearer_token, lastWriter, cache, locks, now, fetches,
                   found, nfetch, wrote>>

\* response.text().await gives Ok(body) (lines 92-93).
ReadBodyOk(r) ==
    /\ pc[r] = "reading"
    /\ body' = [body EXCEPT ![r] = response[r].text]
    /\ response' = [response EXCEPT ![r] = None]
    /\ fetched' = [fetched EXCEPT ![r] = [text |-> response[r].text]]
    /\ fetchedAt' = [fetchedAt EXCEPT ![r] = now]
    /\ pc' = [pc EXCEPT ![r] = "mkentry"]
    /\ UNCHANGED <<bearer_token, lastWriter, cache, locks, now, fetches,
                   entry, resp, arrived, seen, found, nfetch, wrote>>

\* A variant of ReadBodyErr that stores the error message in the slot.
ReadBodyErrPoison(r) ==
    /\ pc[r] = "reading"
    /\ fetched' = [fetched EXCEPT ![r] = [failed |-> "body"]]
    /\ cache' = CacheEntry(ErrReading, now)
    /\ Return(r, ErrResponse(ErrReading))
    /\ UNCHANGED <<bearer_token, lastWriter, locks, now, fetches, found,
                   nfetch, wrote>>

\* response.text().await gives Err(e) (lines 105-112).
ReadBodyErr(r) ==
    /\ pc[r] = "reading"
    /\ fetched' = [fetched EXCEPT ![r] = [failed |-> "body"]]
    /\ Return(r, ErrResponse(ErrReading))
    /\ UNCHANGED <<bearer_token, lastWriter, cache, locks, now, fetches,
                   found, nfetch, wrote>>

\* A variant of MakeEntry that stamps the entry with the arrival time.
MakeEntryAtArrival(r) ==
    /\ pc[r] = "mkentry"
    /\ entry' = [entry EXCEPT ![r] = CacheEntry(body[r], arrived[r])]
    /\ pc' = [pc EXCEPT ![r] = "wrlock"]
    /\ UNCHANGED <<bearer_token, lastWriter, cache, locks, now, fetches,
                   response, body, resp, running, history>>

\* A variant of MakeEntry that keeps the capture time of the entry the
\* request found at its check, when it found one.
MakeEntryKeepSeen(r) ==
    /\ pc[r] = "mkentry"
    /\ entry' = [entry EXCEPT ![r] =
                    CacheEntry(body[r], IF seen[r] = None THEN now
                                        ELSE seen[r].timestamp)]
    /\ pc' = [pc EXCEPT ![r] = "wrlock"]
    /\ UNCHANGED <<bearer_token, lastWriter, cache, locks, now, fetches,
                   response, body, resp, running, history>>

\* Lines 95-98: the entry is built from a clone of body and Instant::now().
MakeEntry(r) ==
    /\ pc[r] = "mkentry"
    /\ entry' = [entry EXCEPT ![r] = CacheEntry(body[r], now)]
    /\ pc' = [pc EXCEPT ![r] = "wrlock"]
    /\ UNCHANGED <<bearer_token, lastWriter, cache, locks, now, fetches,
                   response, body, resp, running, history>>

\* AcquireWrite that grants the write guard in the order of arrival: a
\* request waits while a request that arrived earlier is waiting for it.
AcquireWriteInOrder(r) ==
    /\ pc[r] = "wrlock"
    /\ writers = {}
    /\ readers = {}
    /\ \A q \in Reqs \ {r} : pc[q] = "wrlock" => arrived[q] >= arrived[r]
    /\ writers' = writers \cup {r}
    /\ lastWriter' = r
    /\ pc' = [pc EXCEPT ![r] = "write"]
    /\ UNCHANGED <<bearer_token, cache, readers, now, fetches, locals,
                   running, history>>

\* state.cache.write().await (line 100): granted while nobody holds the
\* lock.
AcquireWrite(r) ==
    /\ pc[r] = "wrlock"
    /\ writers = {}
    /\ readers = {}
    /\ writers' = writers \cup {r}
    /\ lastWriter' = r
    /\ pc' = [pc EXCEPT ![r] = "write"]
    /\ UNCHANGED <<bearer_token, cache, readers, now, fetches, locals,
                   running, history>>

\* A variant of WriteCache that checks freshness again under the write
\* guard and keeps an entry another request stored in the meantime.
WriteCacheIfStale(r) ==
    /\ pc[r] = "write"
    /\ cache' = IF IsFresh(cache, now) THEN cache ELSE entry[r]
    /\ wrote' = [wrote EXCEPT ![r] =
                    IF IsFresh(cache, now) THEN None ELSE entry[r]]
    /\ writers' = writers \ {r}
    /\ Return(r, OkResponse(body[r]))
    /\ UNCHANGED <<bearer_token, lastWriter, readers, now, fetches, found,
                   nfetch, fetched>>

\* A variant of WriteCache that replaces the data of an existing entry and
\* leaves its timestamp.
WriteCacheDataOnly(r) ==
    /\ pc[r] = "write"
    /\ cache' = IF cache = None THEN entry[r]
                ELSE CacheEntry(entry[r].data, cache.timestamp)
    /\ wrote' = [wrote EXCEPT ![r] = entry[r]]
    /\ writers' = writers \ {r}
    /\ Return(r, OkResponse(body[r]))
    /\ UNCHANGED <<bearer_token, lastWriter, readers, now, fetches, found,
                   nfetch, fetched>>

\* Lines 101-104, under the write guard: *cache = Some(entry), then
\* body.into_response(); the guard is dropped at the end of the match arm
\* and handler returns.
WriteCache(r) ==
    /\ pc[r] = "write"
    /\ cache' = entry[r]
    /\ wrote' = [wrote EXCEPT ![r] = entry[r]]
    /\ writers' = writers \ {r}
    /\ Return(r, OkResponse(body[r]))
    /\ UNCHANGED <<bearer_token, lastWriter, readers, now, fetches, found,
                   nfetch, fetched>>

Next ==
    \/ Tick
    \/ \E r \in Reqs : Start(r)
    \/ \E r \in Reqs : AcquireRead(r)
    \/ \E r \in Reqs : CheckCache(r)
    \/ \E r \in Reqs : Send(r)
    \/ \E r \in Reqs : SendOk(r)
    \/ \E r \in Reqs : SendErr(r)
    \/ \E r \in Reqs : ReadBodyOk(r)
    \/ \E r \in Reqs : ReadBodyErr(r)
    \/ \E r \in Reqs : MakeEntry(r)
    \/ \E r \in Reqs : AcquireWrite(r)
    \/ \E r \in Reqs : WriteCache(r)

Spec == Init /\ [][Next]_vars

\* ------------------------------------------------------------------ claims

\* The fetch of request r ended with a body / with an error.
FetchOk(r) == fetched[r] # None /\ "text" \in DOMAIN fetched[r]

FetchFailed(r) == fetched[r] # None /\ "failed" \in DOMAIN fetched[r]

Over(r) == pc[r] \in {"done", "panicked"}

ErrorMessages == {ErrFetching, ErrReading}

\* C1 (fresh hit): whenever the cache check of a request finds an entry whose
\* age, now - timestamp, is strictly less than CACHE_DURATION, that step
\* returns status 200 with exactly that entry's data, the count of upstream
\* fetches is unchanged by it, and the request has started no fetch; a
\* request that found a fresh entry is over, with a 200 and no fetch.
C1_FreshHit ==
    /\ [](\A r \in Reqs : found[r] = "fresh" =>
            /\ pc[r] = "done"
            /\ nfetch[r] = 0
            /\ resp[r] # None /\ resp[r].status = 200)
    /\ [][\A r \in Reqs :
            (/\ pc[r] = "check" /\ pc'[r] # "check"
             /\ cache # None
             /\ now - cache.timestamp < CACHE_DURATION)
            => /\ pc'[r] = "done"
               /\ resp'[r] = [status |-> 200, body |-> cache.data]
               /\ fetches' = fetches
               /\ nfetch'[r] = 0]_vars

\* A request was answered from the slot: 200 with the data the slot holds,
\* after one fetch by an earlier request and none by this one.
C1_Witness ==
    \E r \in Reqs :
        /\ pc[r] = "done" /\ found[r] = "fresh" /\ nfetch[r] = 0
        /\ cache # None /\ resp[r] = [status |-> 200, body |-> cache.data]
        /\ fetches = 1

\* C2 (stale is never served): a request whose cache check found a stale
\* entry (age >= CACHE_DURATION) never ends without having started a fetch:
\* it does not panic, and when it is over it has started exactly one fetch
\* and its fetch has an outcome.  If the fetch failed the response is a 500
\* carrying an error message (not the stale data); if it succeeded the
\* response carries the text of that fetch.
C2_StaleNeverServed ==
    \A r \in Reqs : found[r] = "stale" =>
        /\ pc[r] # "panicked"
        /\ pc[r] = "done" =>
            /\ nfetch[r] = 1
            /\ FetchOk(r) \/ FetchFailed(r)
            /\ FetchFailed(r) =>
                   resp[r].status = 500 /\ resp[r].body \in ErrorMessages
            /\ FetchOk(r) =>
                   resp[r] = [status |-> 200, body |-> fetched[r].text]

\* A request found the entry stale, its fetch failed, and it answered 500
\* while the slot still holds an entry.
C2_Witness ==
    \E r \in Reqs :
        /\ pc[r] = "done" /\ found[r] = "stale" /\ FetchFailed(r)
        /\ resp[r].status = 500 /\ cache # None

\* C3 (successful refresh): when a request that found the slot empty or
\* stale, and whose fetch succeeded, returns, it returns 200 with exactly
\* the text of its own fetch, and that step stores in the slot the entry
\* made of that text and of a timestamp that is no earlier than the moment
\* the body had been read, nor than the arrival of the request.
C3_SuccessfulRefresh ==
    /\ [](\A r \in Reqs : (pc[r] = "done" /\ FetchOk(r)) =>
            /\ found[r] \in {"empty", "stale"}
            /\ resp[r] = [status |-> 200, body |-> fetched[r].text]
            /\ wrote[r] # None /\ wrote[r].data = fetched[r].text)
    /\ [][\A r \in Reqs :
            (/\ pc[r] # "done" /\ pc'[r] = "done"
             /\ found[r] \in {"empty", "stale"}
             /\ FetchOk(r))
            => /\ resp'[r] = [status |-> 200, body |-> fetched[r].text]
               /\ cache' # None
               /\ cache'.data = fetched[r].text
               /\ cache'.timestamp >= fetchedAt[r]
               /\ fetchedAt[r] >= arrived[r]
               /\ cache'.timestamp >= arrived[r]
               /\ wrote'[r] = cache']_vars

\* A request found a stale entry, fetched, returned the fetched text and
\* left its entry, stamped after CACHE_DURATION, in the slot.
C3_Witness ==
    \E r \in Reqs :
        /\ pc[r] = "done" /\ found[r] = "stale" /\ FetchOk(r)
        /\ resp[r] = [status |-> 200, body |-> fetched[r].text]
        /\ cache = wrote[r]
        /\ cache.timestamp >= CACHE_DURATION


\* C4 (a failed fetch preserves the slot): a request whose fetch failed
\* (send() or text() gave Err) is over with a 500 carrying an error message
\* and has stored nothing; the step on which it returns leaves the slot as it
\* was; the slot changes only on a step of a request whose fetch succeeded;
\* and the slot never holds an error message.
C4_FailurePreservesSlot ==
    /\ [](\A r \in Reqs : FetchFailed(r) =>
            /\ pc[r] = "done"
            /\ resp[r].status = 500 /\ resp[r].body \in ErrorMessages
            /\ wrote[r] = None)
    /\ [](cache # None => cache.data \notin ErrorMessages)
    /\ [][\A r \in Reqs :
            (pc[r] \in {"sending", "reading"} /\ pc'[r] = "done")
            => (cache' = cache /\ resp'[r].status = 500)]_vars
    /\ [][cache' # cache =>
            \E r \in Reqs :
                pc[r] = "write" /\ FetchOk(r) /\ ~FetchFailed(r)]_vars

\* A request found the entry captured at 0 stale, could not read the body of
\* its fetch, answered 500, and the slot still holds the entry captured at 0.
C4_Witness ==
    \E r \in Reqs :
        /\ pc[r] = "done" /\ found[r] = "stale"
        /\ fetched[r] = [failed |-> "body"]
        /\ resp[r] = [status |-> 500, body |-> ErrReading]
        /\ cache # None /\ cache.timestamp = 0
        /\ now >= CACHE_DURATION

\* C5 (fetch count per request): every request that is over has started
\* exactly one upstream fetch if its cache check found the slot empty or
\* stale, and none otherwise; no request starts more than one.
C5_FetchCountPerRequest ==
    \A r \in Reqs :
        /\ nfetch[r] <= 1
        /\ Over(r) =>
              nfetch[r] = IF found[r] \in {"empty", "stale"} THEN 1 ELSE 0

\* C6 (concurrent cold start): when every request found the slot empty and
\* every fetch succeeded, then once all have returned each has a 200, each
\* stored one entry made of its own text, and the slot holds exactly the
\* entry (data and timestamp together) that one of them stored.
C6_ConcurrentColdStart ==
    (\A r \in Reqs : pc[r] = "done" /\ found[r] = "empty" /\ FetchOk(r))
    => /\ \A r \in Reqs :
            /\ resp[r] = [status |-> 200, body |-> fetched[r].text]
            /\ wrote[r] # None
            /\ wrote[r].data = fetched[r].text
            /\ wrote[r].data.to = r
       /\ \E r \in Reqs : cache = wrote[r]

\* All requests started cold, all returned, and the entries they stored
\* carry different timestamps; the slot holds one of them.
C6_Witness ==
    /\ \A r \in Reqs : pc[r] = "done" /\ found[r] = "empty" /\ FetchOk(r)
    /\ \E r, q \in Reqs :
        /\ r # q
        /\ cache = wrote[r]
        /\ wrote[q].timestamp # wrote[r].timestamp

\* C7 (no lock is held across upstream I/O): a request whose fetch is in
\* flight (send() or text() pending) holds neither guard; a request holds
\* the read guard only at the cache check, before its fetch starts, and the
\* write guard only after its fetch has succeeded.
C7_NoLockAcrossFetch ==
    \A r \in Reqs :
        /\ pc[r] \in {"send", "sending", "reading", "mkentry", "wrlock"}
              => (r \notin readers /\ r \notin writers)
        /\ r \in readers => (pc[r] = "check" /\ nfetch[r] = 0)
        /\ r \in writers => (pc[r] = "write" /\ FetchOk(r))

\* The fetch of one request is in flight while another request holds the
\* write guard.
C7_Witness ==
    \E r, q \in Reqs :
        /\ r # q
        /\ pc[r] \in {"sending", "reading"}
        /\ q \in writers

\* C8 (reader/writer exclusion): at most one request holds the write guard,
\* and while one does no request holds a read guard.
C8_ReaderWriterExclusion ==
    /\ Cardinality(writers) <= 1
    /\ writers # {} => readers = {}

\* One request holds the write guard while another waits for a read guard.
C8_Witness ==
    \E r, q \in Reqs :
        /\ r # q
        /\ writers = {r}
        /\ pc[q] = "rdlock"

\* Every request holds a read guard at the same time.
C8_ReadersTogether == readers = Reqs /\ Cardinality(readers) >= 2

\* C9 (last writer wins): the write of a request whose fetch succeeded
\* replaces the slot by that request's entry whatever the slot holds, fresh
\* or not; the slot changes in no other way; and whenever the lock is free
\* the slot holds the entry stored by the request that acquired the write
\* guard last.
C9_LastWriterWins ==
    /\ [](\A r \in Reqs :
            (lastWriter = r /\ r \notin writers /\ wrote[r] # None)
            => cache = wrote[r])
    /\ [][\A r \in Reqs :
            (pc[r] = "write" /\ pc'[r] # "write")
            => (entry[r] # None /\ cache' = entry[r])]_vars
    /\ [][cache' # cache => \E r \in writers : cache' = entry[r]]_vars

\* Two requests started cold; q stored its entry, and r, which acquired the
\* write guard last, replaced it while it was still fresh.
C9_Witness ==
    \E r, q \in Reqs :
        /\ r # q
        /\ pc[r] = "done" /\ pc[q] = "done"
        /\ found[r] = "empty" /\ found[q] = "empty"
        /\ wrote[r] # None /\ wrote[q] # None
        /\ lastWriter = r
        /\ cache = wrote[r] /\ cache # wrote[q]
        /\ now - wrote[q].timestamp < CACHE_DURATION

\* C10 (slot lifecycle): the slot is empty initially; it changes only on
\* the write of a request whose fetch succeeded, which stores that request's
\* entry; and once it holds an entry it never becomes empty again.
C10_SlotLifecycle ==
    /\ cache = None
    /\ [][cache' # cache =>
            \E r \in Reqs :
                /\ pc[r] = "write" /\ pc'[r] = "done"
                /\ FetchOk(r)
                /\ cache' = entry[r]]_vars
    /\ [][cache # None => cache' # None]_vars

\* The entry one request stored has been superseded by the entry of a
\* request that found it stale.
C10_Witness ==
    \E r, q \in Reqs :
        /\ r # q
        /\ found[q] = "empty" /\ wrote[q] # None
        /\ found[r] = "stale" /\ wrote[r] # None
        /\ cache = wrote[r] /\ cache # wrote[q]

\* C11 (every request is answered): a request that has started ends with a
\* response; the handling of a request never ends leaving the client
\* without one.  A run that ends a request without a response refutes the
\* claim after finitely many steps, so it is stated on the states in which
\* the handling of a request is over.
C11_EveryRequestAnswered ==
    \A r \in Reqs : Over(r) => resp[r] # None

\* C12 (the freshness boundary is strict): the check of a request that sees
\* an entry serves it from the cache exactly when the entry's age is below
\* CACHE_DURATION; at an age of exactly CACHE_DURATION, or more, the request
\* goes on to the upstream fetch, and at CACHE_DURATION - 1 it is answered
\* with the entry's data.
C12_StrictBoundary ==
    [][\A r \in Reqs :
          (pc[r] = "check" /\ pc'[r] # "check" /\ cache # None) =>
              /\ (now - cache.timestamp < CACHE_DURATION) <=>
                     (pc'[r] = "done" /\ resp'[r] = OkResponse(cache.data))
              /\ (now - cache.timestamp >= CACHE_DURATION) <=>
                     (pc'[r] = "send" /\ resp'[r] = None)
              /\ (now - cache.timestamp = CACHE_DURATION) => pc'[r] = "send"
              /\ (now - cache.timestamp = CACHE_DURATION - 1) =>
                     pc'[r] = "done"]_vars

\* A request checked an entry of age exactly CACHE_DURATION and has its
\* upstream fetch in flight, while the other request was answered from the
\* same entry at age CACHE_DURATION - 1 or less.
C12_Witness ==
    \E r, q \in Reqs :
        /\ r # q
        /\ pc[r] = "sending" /\ found[r] = "stale"
        /\ seen[r] # None /\ now - seen[r].timestamp = CACHE_DURATION
        /\ pc[q] = "done" /\ found[q] = "fresh"
        /\ resp[q] = OkResponse(seen[r].data)

\* ------------------------------------------- requests one after the other

\* The handler of request r is between its start and its end.
Running(r) == pc[r] \notin {"idle", "done", "panicked"}

\* A request arrives only when no other request is being handled.
SeqStart(r) ==
    /\ \A q \in Reqs : ~Running(q)
    /\ Start(r)

\* The steps of the runs in which requests do not overlap and every fetch
\* yields a body: no send error and no body-read error occurs.
SeqNext ==
    \/ Tick
    \/ \E r \in Reqs : SeqStart(r)
    \/ \E r \in Reqs : AcquireRead(r)
    \/ \E r \in Reqs : CheckCache(r)
    \/ \E r \in Reqs : Send(r)
    \/ \E r \in Reqs : SendOk(r)
    \/ \E r \in Reqs : ReadBodyOk(r)
    \/ \E r \in Reqs : MakeEntry(r)
    \/ \E r \in Reqs : AcquireWrite(r)
    \/ \E r \in Reqs : WriteCache(r)

SeqSpec == Init /\ [][SeqNext]_vars

\* The reference single-slot cache with a time to live: one request at
\* time t.  It fetches when the slot is empty or the time since the last
\* fetch is at least CACHE_DURATION, and then stores the fetched body b
\* with the time ts of the fetch; otherwise it answers from the slot.
RefRequest(slot, count, t, b, ts) ==
    IF slot = None \/ t - slot.timestamp >= CACHE_DURATION
    THEN [slot |-> CacheEntry(b, ts), count |-> count + 1, out |-> b,
          fetch |-> TRUE]
    ELSE [slot |-> slot, count |-> count, out |-> slot.data,
          fetch |-> FALSE]

\* The fetches that count for the reference cache: those of the requests
\* that have been answered.  A fetch in flight is counted when its request
\* stores the entry.
RefCount ==
    fetches - Cardinality({r \in Reqs :
                  pc[r] \in {"sending", "reading", "mkentry", "wrlock",
                             "write"}})

\* C13 (sequential reference behaviour): when requests do not overlap and
\* every fetch succeeds, each answer of the program is one request of the
\* reference cache: the request fetches exactly when the slot is empty or
\* at least CACHE_DURATION old, the fetch count grows by one exactly then,
\* the response is the body of the most recent fetch, and the entry in the
\* slot carries the time of that fetch.  Every other step leaves the slot
\* and the fetch count as they are.
C13_SequentialReference ==
    [][LET answered == {r \in Reqs : pc[r] # "done" /\ pc'[r] = "done"}
       IN  IF answered = {}
           THEN cache' = cache /\ RefCount' = RefCount
           ELSE \E r \in answered :
                    \E ts \in fetchedAt[r] .. now :
                        LET ref == RefRequest(cache, RefCount, now,
                                              body[r], ts)
                        IN  /\ cache' = ref.slot
                            /\ RefCount' = ref.count
                            /\ resp'[r] = OkResponse(ref.out)
                            /\ ref.fetch <=> nfetch[r] = 1]_vars

\* The run of the example: a first request fetched, a second one was
\* answered from that entry, and a later request found the entry stale,
\* fetched a different body and stored it at a later time.
C13_Witness ==
    \E r, q \in Reqs :
        /\ r # q
        /\ pc[r] = "done" /\ pc[q] = "done"
        /\ found[q] = "fresh" /\ nfetch[q] = 0
        /\ resp[q].body.to = r /\ resp[q].body # cache.data
        /\ found[r] = "stale" /\ nfetch[r] = 1
        /\ cache = wrote[r] /\ resp[r] = OkResponse(cache.data)
        /\ cache.timestamp >= CACHE_DURATION
        /\ fetches = 2

\* ------------------------------------------------------ claims, continued

\* C14 (no single-flight): a request that missed starts its own upstream
\* fetch whatever the other requests are doing, also while their fetches
\* are in flight, and a request that missed and is answered with 200 made
\* one fetch of its own and returns the body of that fetch, never the
\* result of another request's fetch.  (MaxFetches bounds the number of
\* fetches of a run.)
C14_NoSingleFlight ==
    \A r \in Reqs :
        /\ (pc[r] = "send" /\ fetches < MaxFetches) => ENABLED Send(r)
        /\ (pc[r] \in {"sending", "reading"}) =>
               (ENABLED SendOk(r) \/ ENABLED ReadBodyOk(r))
        /\ (pc[r] = "done" /\ found[r] # "fresh" /\ resp[r].status = 200) =>
               /\ nfetch[r] = 1
               /\ FetchOk(r)
               /\ resp[r].body = fetched[r].text
               /\ resp[r].body.to = r

\* All the requests have an upstream fetch in flight at the same time.
C14_Witness ==
    /\ \A r \in Reqs : pc[r] \in {"sending", "reading"} /\ nfetch[r] = 1
    /\ fetches = NumReqs

\* C15 (no ordering between observation and storage): whenever the lock is
\* free, each request that waits to store its entry can take the write
\* guard next, whichever of them checked the cache first; and the slot
\* holds the entry of the request that took the guard last.  So of two
\* requests that both missed, either one's entry can be the final one.
C15_NoObservationOrder ==
    /\ \A r \in Reqs :
           (pc[r] = "wrlock" /\ readers = {} /\ writers = {}) =>
               ENABLED AcquireWrite(r)
    /\ \A r \in Reqs :
           (lastWriter = r /\ pc[r] = "done" /\ wrote[r] # None) =>
               cache = wrote[r]

\* Request r checked the empty slot and built its entry before request q
\* arrived; both fetches succeeded and both requests now wait for the free
\* lock, so the next write can be r's or q's.
C15_Witness ==
    \E r, q \in Reqs :
        /\ r # q
        /\ pc[r] = "wrlock" /\ pc[q] = "wrlock"
        /\ found[r] = "empty" /\ found[q] = "empty"
        /\ FetchOk(r) /\ FetchOk(q)
        /\ entry[r].timestamp < arrived[q]
        /\ readers = {} /\ writers = {}

\* C16 (cache hits do not modify the slot): the step that answers a request
\* from the cache leaves the slot's data and captured_at as they were, so
\* the entry still expires CACHE_DURATION after it was captured, however
\* many requests were served from it.
C16_HitLeavesSlot ==
    [][\A r \in Reqs :
          (pc[r] = "check" /\ pc'[r] = "done") =>
              /\ cache # None
              /\ cache' = cache
              /\ cache'.timestamp + CACHE_DURATION =
                     cache.timestamp + CACHE_DURATION
              /\ resp'[r] = OkResponse(cache'.data)]_vars

\* Both requests were served from the same entry, the later one after a
\* tick of the clock, and the entry still carries the time of its capture.
C16_Witness ==
    /\ \A r \in Reqs :
           /\ pc[r] = "done" /\ found[r] = "fresh" /\ nfetch[r] = 0
           /\ resp[r] = OkResponse(cache.data)
    /\ cache.timestamp = 0
    /\ now = CACHE_DURATION - 1
    /\ fetches = 1

\* C17 (only 200 or 500 outcomes): for every bearer token and every
\* upstream outcome, the handling of a request that missed the cache ends
\* by returning a response whose status is 200 or 500; it never ends in a
\* panic while the upstream request is built or sent.
C17_OnlyOkOrError ==
    \A r \in Reqs :
        (found[r] \in {"empty", "stale"} /\ pc[r] \notin {"send", "sending",
             "reading", "mkentry", "wrlock", "write"}) =>
            /\ pc[r] = "done"
            /\ resp[r] # None
            /\ resp[r].status \in {200, 500}

\* C18 (monotonic capture time): each write stores a captured_at that is at
\* least the captured_at of the entry it replaces, so the captured_at of
\* the slot never decreases.
C18_MonotonicCaptureTime ==
    [][(cache # None /\ cache' # None) =>
           cache'.timestamp >= cache.timestamp]_vars

\* C18, amended: each write stores a captured_at that is at least
\* CACHE_DURATION later than the captured_at of the entry the writing
\* request found stale at its own cache check.  (The entry it replaces may
\* be a later one, stored meanwhile by an overlapping request.)
C18_CaptureTimeAfterSeen ==
    [][\A r \in Reqs :
          (pc[r] = "write" /\ pc'[r] = "done" /\ seen[r] # None) =>
              /\ cache' # None
              /\ cache'.timestamp >= seen[r].timestamp + CACHE_DURATION
              /\ cache'.timestamp <= now]_vars

\* A request found the entry of the other request stale and stored an
\* entry captured at least CACHE_DURATION after it.
C18_Witness ==
    \E r, q \in Reqs :
        /\ r # q
        /\ pc[q] = "done" /\ found[q] = "empty" /\ wrote[q] # None
        /\ pc[r] = "done" /\ found[r] = "stale" /\ wrote[r] # None
        /\ lastWriter = r
        /\ cache = wrote[r]
        /\ cache.timestamp >= wrote[q].timestamp + CACHE_DURATION

\* C19 (the upstream status is not inspected): a request whose fetch gave a
\* body that could be read is answered with 200 and that body, and has
\* stored it, whatever status the upstream sent, 4xx and 5xx included; the
\* stored body is served with 200 to the requests that find it fresh; and
\* a request is answered with 500 only when the send or the reading of the
\* body failed.
C19_StatusNotInspected ==
    \A r \in Reqs :
        pc[r] = "done" =>
            /\ FetchOk(r) =>
                   /\ fetched[r].text.upstream \in UpstreamStatuses
                   /\ resp[r] = OkResponse(fetched[r].text)
                   /\ wrote[r] # None
                   /\ wrote[r].data = fetched[r].text
            /\ found[r] = "fresh" =>
                   /\ resp[r].status = 200
                   /\ resp[r].body.upstream \in UpstreamStatuses
            /\ resp[r].status = 500 =>
                   /\ FetchFailed(r)
                   /\ fetched[r].failed \in {"send", "body"}

\* The upstream answered one request with status 503 and a readable body:
\* the request got 200 with that body, the body is in the slot, and the
\* other request was served the same body from the cache with 200.
C19_Witness ==
    \E r, q \in Reqs :
        /\ r # q
        /\ pc[q] = "done" /\ FetchOk(q)
        /\ fetched[q].text.upstream = 503
        /\ resp[q] = OkResponse(fetched[q].text)
        /\ cache # None /\ cache.data = fetched[q].text
        /\ pc[r] = "done" /\ found[r] = "fresh" /\ nfetch[r] = 0
        /\ resp[r] = OkResponse(cache.data)

====
